---------------------------- MODULE Spec2Model ----------------------------
(***************************************************************************)
(* Model of the Nyx CSV chatbot: keyword inference, the two search         *)
(* strategies (src/chatbot.py: one get_data request per category x genre   *)
(* pair, then de-duplication; src/advanced-rag/retriever.py: one SPARQL    *)
(* query, then the triple parser), the download loop and the REPL.         *)
(*                                                                         *)
(* Strings.  A Python str is modelled as a sequence of pieces.  A piece is *)
(* either one character the code looks at (a blank, a digit, a sign, a     *)
(* slash, a quote, a letter of the word "exit") or an opaque run of        *)
(* characters the code only ever compares or copies as a whole (an IRI, a  *)
(* label).  "" is << >>.                                                   *)
(***************************************************************************)
EXTENDS Integers, Sequences, FiniteSets, TLC

VARIABLES
    pc,               \* position of the modelled run
    raw_data,         \* rows csv.reader yields for the SPARQL response
    parsed,           \* outcome of _parse_data(raw_data)
    matching_files,   \* value returned by the search
    results,          \* records gathered by the cartesian search, before de-duplication
    data,             \* records handed to retrieve_csv_files
    outcomes,         \* what happens to each record of data during the download
    downloaded_files, \* value returned by retrieve_csv_files
    disk,             \* the files on disk: path -> content
    strategy,         \* "cartesian": src/chatbot.py; "filter": src/advanced-rag
    user_query,       \* the query being processed
    llm_reply,        \* what the LLM did on the last inference call
    inferred_keywords,\* value returned by the last inference call
    requests,         \* marketplace requests issued by the last search
    log,              \* steps of the current query, up to its first analysis
    uncaught,         \* the exception that ended the program, "none" otherwise
    answer,           \* what the last analysis call returned
    queries,          \* number of queries accepted so far
    last_input,       \* what the user last did at a prompt or during a step
    search_error      \* the last search caught an exception and logged it

replVars == <<strategy, user_query, llm_reply, inferred_keywords, requests, log,
              uncaught, answer, queries, last_input, search_error>>

vars == <<pc, raw_data, parsed, matching_files, results, data, outcomes,
          downloaded_files, disk, strategy, user_query, llm_reply,
          inferred_keywords, requests, log, uncaught, answer, queries,
          last_input, search_error>>

(***************************************************************************)
(* Bounds of the model.                                                    *)
(***************************************************************************)
MaxRows == 3          \* data rows of an enumerated SPARQL response
MaxResults == 3       \* records of an enumerated get_data result list
MaxQueries == 2       \* queries the REPL accepts in a modelled run

(***************************************************************************)
(* str.strip(), int(str)                                                   *)
(***************************************************************************)
IsSpace(c) == c \in {" ", "\t"}

RECURSIVE LStrip(_)
LStrip(s) ==
    IF s = << >> THEN s
    ELSE IF IsSpace(Head(s)) THEN LStrip(Tail(s)) ELSE s

RECURSIVE RStrip(_)
RStrip(s) ==
    IF s = << >> THEN s
    ELSE IF IsSpace(s[Len(s)]) THEN RStrip(SubSeq(s, 1, Len(s) - 1)) ELSE s

Strip(s) == RStrip(LStrip(s))

Digits == <<"0", "1", "2", "3", "4", "5", "6", "7", "8", "9">>

IsDigit(c) == \E d \in 1..10 : Digits[d] = c

DigitValue(c) == (CHOOSE d \in 1..10 : Digits[d] = c) - 1

RECURSIVE DigitsValue(_)
DigitsValue(s) ==
    IF s = << >> THEN 0
    ELSE 10 * DigitsValue(SubSeq(s, 1, Len(s) - 1)) + DigitValue(s[Len(s)])

\* int(s) accepts blanks around an optional sign followed by digits.
IntBody(s) ==
    LET t == Strip(s)
    IN  IF t # << >> /\ Head(t) \in {"+", "-"} THEN Tail(t) ELSE t

IntParses(s) ==
    /\ IntBody(s) # << >>
    /\ \A i \in 1..Len(IntBody(s)) : IsDigit(IntBody(s)[i])

IntValue(s) ==
    LET t == Strip(s)
    IN  IF Head(t) = "-" THEN 0 - DigitsValue(IntBody(s)) ELSE DigitsValue(IntBody(s))

(***************************************************************************)
(* The predicates _parse_data recognises.                                  *)
(***************************************************************************)
P_productName == <<"http://data.iotics.com/pnyx#productName">>
P_title       == <<"http://purl.org/dc/terms/title">>
P_description == <<"http://purl.org/dc/terms/description">>
P_creator     == <<"http://purl.org/dc/terms/creator">>
P_theme       == <<"http://www.w3.org/ns/dcat#theme">>
P_type        == <<"http://purl.org/dc/terms/type">>
P_byteSize    == <<"http://www.w3.org/ns/dcat#byteSize">>
P_accessURL   == <<"http://www.w3.org/ns/dcat#accessURL">>
P_mediaType   == <<"http://www.w3.org/ns/dcat#mediaType">>

Org == <<"my-org">>       \* nyx_client.org

\* The accumulator a subject starts with.
DefaultData(org) ==
    [name |-> << >>, title |-> << >>, description |-> << >>, org |-> org,
     url |-> << >>, content_type |-> << >>, creator |-> << >>,
     categories |-> << >>, genre |-> << >>, size |-> 0]

\* Position of subject in the insertion-ordered temp_data_map, 0 if absent.
MapIndex(m, subject) ==
    IF \E i \in 1..Len(m) : m[i].subject = subject
    THEN CHOOSE i \in 1..Len(m) : m[i].subject = subject
    ELSE 0

\* A defect the theme branch could have: the newest category goes first.
PrependCategory(cats, obj) == <<obj>> \o cats

\* temp_data_map[subject]["categories"].append(obj)
AddCategory(cats, obj) == Append(cats, obj)

\* The if/elif chain of _parse_data on one accumulator; int(obj) may raise.
ApplyPredicate(d, predicate, obj) ==
    IF predicate = P_productName THEN [exc |-> "none", data |-> [d EXCEPT !.name = obj]]
    ELSE IF predicate = P_title THEN [exc |-> "none", data |-> [d EXCEPT !.title = obj]]
    ELSE IF predicate = P_description
         THEN [exc |-> "none", data |-> [d EXCEPT !.description = obj]]
    ELSE IF predicate = P_creator THEN [exc |-> "none", data |-> [d EXCEPT !.creator = obj]]
    ELSE IF predicate = P_theme
         THEN [exc |-> "none", data |-> [d EXCEPT !.categories = AddCategory(@, obj)]]
    ELSE IF predicate = P_type THEN [exc |-> "none", data |-> [d EXCEPT !.genre = obj]]
    ELSE IF predicate = P_byteSize
         THEN IF IntParses(obj)
              THEN [exc |-> "none", data |-> [d EXCEPT !.size = IntValue(obj)]]
              ELSE [exc |-> "ValueError", data |-> d]
    ELSE IF predicate = P_accessURL THEN [exc |-> "none", data |-> [d EXCEPT !.url = obj]]
    ELSE IF predicate = P_mediaType
         THEN [exc |-> "none", data |-> [d EXCEPT !.content_type = obj]]
    ELSE [exc |-> "none", data |-> d]

\* A defect the malformed-row test could have: only rows of fewer than two
\* fields are skipped.
SkipsOnlyShorterRows(row) == Len(row) < 2

\* The malformed-row test of the loop.
RowIsSkipped(row) == Len(row) < 3


\* One iteration of the loop over the rows.  A row that is not skipped is
\* indexed at 0, 1 and 2: a row shorter than that raises IndexError.
ParseRow(m, row, org) ==
    IF RowIsSkipped(row) THEN [exc |-> "none", map |-> m]
    ELSE IF Len(row) < 3 THEN [exc |-> "IndexError", map |-> m]
    ELSE
      LET subject   == Strip(row[1])
          predicate == Strip(row[2])
          obj       == Strip(row[3])
          m1 == IF MapIndex(m, subject) = 0
                THEN Append(m, [subject |-> subject, data |-> DefaultData(org)])
                ELSE m
          k  == MapIndex(m1, subject)
          r  == ApplyPredicate(m1[k].data, predicate, obj)
      IN  [exc |-> r.exc, map |-> [m1 EXCEPT ![k].data = r.data]]

RECURSIVE SkipsFailingRows(_, _, _, _)
\* A defect the loop could have: a row that raises is skipped and the loop
\* goes on, so the rows before and after it are still returned.
SkipsFailingRows(m, rows, i, org) ==
    IF i > Len(rows) THEN [exc |-> "none", map |-> m]
    ELSE SkipsFailingRows(ParseRow(m, rows[i], org).map, rows, i + 1, org)

RECURSIVE ParseRows(_, _, _, _)
ParseRows(m, rows, i, org) ==
    IF i > Len(rows) THEN [exc |-> "none", map |-> m]
    ELSE LET r == ParseRow(m, rows[i], org)
         IN  IF r.exc # "none" THEN r ELSE ParseRows(r.map, rows, i + 1, org)

\* next(csv_reader): the first row is consumed before the loop.
\* raw_data.strip().split("\n") always holds a line, so there is a first row.
AfterHeader(rows) == Tail(rows)

\* _parse_data: [exc, value]; value is the list of Data objects when exc is "none".
_parse_data(rows, org) ==
    LET r == ParseRows(<< >>, AfterHeader(rows), 1, org)
    IN  IF r.exc # "none" THEN [exc |-> r.exc, value |-> << >>]
        ELSE [exc |-> "none", value |-> [k \in 1..Len(r.map) |-> r.map[k].data]]

\* The tail of Retriever._search_nyx_for_files once the marketplace has
\* answered: parse, report, return; any exception is logged and [] returned.
FilterSearchReturn(p) == IF p.exc # "none" THEN << >> ELSE p.value

(***************************************************************************)
(* SPARQL responses the parser is run on: a header row, then up to MaxRows *)
(* rows drawn from RowAlphabet; the empty response; and the response of    *)
(* the documented end-to-end scenario.                                     *)
(***************************************************************************)
HeaderRow == << <<"subject">>, <<"predicate">>, <<"object">> >>

S1 == <<"s1">>
S2 == <<"s2">>
Acme == <<"Acme">>
SalesQ1 == <<"Sales", " ", "Q1">>
Str1024 == <<"1", "0", "2", "4">>
MediaUrl == <<"http:", "/", "/", "example.org", "/", "formats", "/", "csv">>
TextCsv == <<"text", "/", "csv">>

RowAlphabet ==
    { << >>,                                              \* blank line
      << S2, P_title >>,                                  \* two fields
      << S1, P_creator, Acme >>,
      << S2, P_creator, <<" ", "Acme">> >>,
      << <<" ", "s1", " ">>, P_title, SalesQ1 >>,
      << S1, P_theme, <<"finance">> >>,
      << S1, P_theme, <<"health">> >>,
      << S2, <<"http://purl.org/dc/terms/issued">>, <<"2024">> >>,
      << S1, P_byteSize, Str1024 >>,
      << S2, P_byteSize, <<"n", "/", "a">> >>,
      << S1, P_mediaType, MediaUrl >>,
      << S2, P_mediaType, TextCsv >>,
      << S2, P_productName, <<"a.csv">> >>,
      << S1, P_type, <<"sales">>, <<"extra">> >> }

ExampleResponse ==
    << HeaderRow,
       << S1, P_title, SalesQ1 >>,
       << S1, P_creator, Acme >>,
       << S1, P_byteSize, Str1024 >>,
       << S2, P_title, SalesQ1 >>,
       << S2, P_creator, Acme >> >>

Responses ==
    { <<HeaderRow>> \o body :
        body \in UNION { [1..n -> RowAlphabet] : n \in 0..MaxRows } }
    \cup { << << >> >>, ExampleResponse }

Pending == [exc |-> "pending", value |-> << >>]

\* A JSON value as json.loads yields it, as far as the code looks into it:
\* t is "dict", "list" or "null"; of a dict, what .get() gives for the two
\* keys: a list of strings (v = "list") or None (v = "None", key absent).
JList(items) == [v |-> "list", items |-> items]
JNone == [v |-> "None", items |-> << >>]
JDict(categories, genres) == [t |-> "dict", categories |-> categories, genres |-> genres]
JOther(t) == [t |-> t, categories |-> JNone, genres |-> JNone]

\* A user event: where the program was (at), what the user did (kind: a
\* "line" typed at a prompt, "interrupt" for Ctrl-C, "eof"), and the line
\* as typed.
UserEvent(at, kind, line) == [at |-> at, kind |-> kind, line |-> line]

NoInput == UserEvent("none", "none", << >>)

\* The variables of the REPL when only a part of the program is run.
ReplIdle ==
    /\ user_query = << >>
    /\ llm_reply = "none"
    /\ inferred_keywords = JOther("null")
    /\ requests = << >>
    /\ log = << >>
    /\ uncaught = "none"
    /\ answer = "none"
    /\ queries = 0
    /\ last_input = NoInput
    /\ search_error = FALSE

InitParse ==
    /\ pc = "search"
    /\ raw_data \in Responses
    /\ parsed = Pending
    /\ matching_files = << >>
    /\ results = << >>
    /\ data = << >>
    /\ outcomes = << >>
    /\ downloaded_files = << >>
    /\ disk = << >>
    /\ strategy = "filter"
    /\ ReplIdle

\* Lines 129-141 of the retriever on the response raw_data.
FilterSearch ==
    /\ pc = "search"
    /\ parsed' = _parse_data(raw_data, Org)
    /\ matching_files' = FilterSearchReturn(parsed')
    /\ search_error' = (parsed'.exc # "none")
    /\ pc' = "done"
    /\ UNCHANGED <<raw_data, results, data, outcomes, downloaded_files, disk,
                   strategy, user_query, llm_reply, inferred_keywords, requests, log,
                   uncaught, answer, queries, last_input>>

NextParse == FilterSearch

SpecParse == InitParse /\ [][NextParse]_vars

(***************************************************************************)
(* De-duplication (search_nyx_for_files of src/chatbot.py) and the         *)
(* download loop (retrieve_csv_files, the same in both programs).          *)
(***************************************************************************)
\* A defect the key could have: the name alone.
KeyIsNameOnly(d) == <<d.name>>

\* key = (data.name, data.creator)
DedupKey(d) == <<d.name, d.creator>>

\* The loop over results with its seen set and unique_results list.
RECURSIVE DedupLoop(_, _, _, _)
DedupLoop(res, i, seen, unique_results) ==
    IF i > Len(res) THEN unique_results
    ELSE IF DedupKey(res[i]) \notin seen
         THEN DedupLoop(res, i + 1, seen \cup {DedupKey(res[i])},
                        Append(unique_results, res[i]))
         ELSE DedupLoop(res, i + 1, seen, unique_results)

RemoveDuplicates(res) == DedupLoop(res, 1, {}, << >>)

DownloadPath == <<".", "/", "data">>          \* download_path = "./data"

\* os.path.join(a, b) on POSIX.
PathJoin(a, b) ==
    IF b # << >> /\ Head(b) = "/" THEN b
    ELSE IF a = << >> \/ a[Len(a)] = "/" THEN a \o b
    ELSE a \o <<"/">> \o b

\* d.as_string(): the content the marketplace serves for record d.
Content(d) == <<"content of", d.creator, d.name>>

\* What can happen to one record inside the try block of the loop.
\*   subscribe_raises: client.subscribe(d) raises
\*   open_raises:      open(file_path, "wb") raises
\*   write_raises:     the file is created, then as_string() or write() raises
\*   ok:               the file is written
Outcomes == {"ok", "subscribe_raises", "open_raises", "write_raises"}

\* open() raises on the download directory itself ("./data/" for an empty name).
OutcomePossible(d, o) == (d.name = << >>) => o \in {"subscribe_raises", "open_raises"}

PutFile(fs, path, content) ==
    IF \E k \in 1..Len(fs) : fs[k].path = path
    THEN [k \in 1..Len(fs) |->
             IF fs[k].path = path THEN [path |-> path, content |-> content] ELSE fs[k]]
    ELSE Append(fs, [path |-> path, content |-> content])

\* A defect the loop could have: the first failure ends the batch.
RECURSIVE DownloadLoopStopsAtFailure(_, _, _, _, _)
DownloadLoopStopsAtFailure(ds, outs, i, files, fs) ==
    IF i > Len(ds) THEN [downloaded_files |-> files, disk |-> fs]
    ELSE IF outs[i] # "ok" THEN [downloaded_files |-> files, disk |-> fs]
    ELSE DownloadLoopStopsAtFailure(ds, outs, i + 1,
             Append(files, PathJoin(DownloadPath, ds[i].name)),
             PutFile(fs, PathJoin(DownloadPath, ds[i].name), Content(ds[i])))

\* for d in data: try: subscribe, open, write, append; except: log.
RECURSIVE DownloadLoop(_, _, _, _, _)
DownloadLoop(ds, outs, i, files, fs) ==
    IF i > Len(ds) THEN [downloaded_files |-> files, disk |-> fs]
    ELSE LET file_path == PathJoin(DownloadPath, ds[i].name)
         IN  IF outs[i] = "ok"
             THEN DownloadLoop(ds, outs, i + 1, Append(files, file_path),
                               PutFile(fs, file_path, Content(ds[i])))
             ELSE IF outs[i] = "write_raises"
             THEN DownloadLoop(ds, outs, i + 1, files, PutFile(fs, file_path, << >>))
             ELSE DownloadLoop(ds, outs, i + 1, files, fs)

\* retrieve_csv_files once the download directory exists.
retrieve_csv_files(ds, outs, fs) == DownloadLoop(ds, outs, 1, << >>, fs)

OutcomeVectors(ds) ==
    { o \in [1..Len(ds) -> Outcomes] : \A i \in 1..Len(ds) : OutcomePossible(ds[i], o[i]) }

(***************************************************************************)
(* Record lists the de-duplication and the download are run on.            *)
(***************************************************************************)
Rec(name, creator, title) ==
    [DefaultData(Org) EXCEPT !.name = name, !.creator = creator, !.title = title]

RecordAlphabet ==
    { Rec(<<"a.csv">>, Acme, <<"t1">>),
      Rec(<<"a.csv">>, Acme, <<"t2">>),
      Rec(<<"a.csv">>, <<"Bob">>, <<"t1">>),
      Rec(<<"b.csv">>, Acme, <<"t1">>),
      Rec(<< >>, Acme, <<"t1">>) }

InitBatch ==
    /\ pc = "gathered"
    /\ results \in UNION { [1..n -> RecordAlphabet] : n \in 0..MaxResults }
    /\ raw_data = << >>
    /\ parsed = Pending
    /\ matching_files = << >>
    /\ data = << >>
    /\ outcomes = << >>
    /\ downloaded_files = << >>
    /\ disk = << >>
    /\ strategy \in {"cartesian", "filter"}
    /\ ReplIdle

\* Lines 99-113 of src/chatbot.py.
Deduplicate ==
    /\ pc = "gathered"
    /\ strategy = "cartesian"
    /\ matching_files' = RemoveDuplicates(results)
    /\ pc' = "searched"
    /\ UNCHANGED <<raw_data, parsed, results, data, outcomes, downloaded_files, disk,
                   replVars>>

\* Lines 130-137 of the retriever: the parsed records are returned as they are.
ReturnParsed ==
    /\ pc = "gathered"
    /\ strategy = "filter"
    /\ matching_files' = results
    /\ pc' = "searched"
    /\ UNCHANGED <<raw_data, parsed, results, data, outcomes, downloaded_files, disk,
                   replVars>>

\* retrieve_csv_files(client, data=matching_files).
Download ==
    /\ pc = "searched"
    /\ data' = matching_files
    /\ \E o \in OutcomeVectors(matching_files) :
         /\ outcomes' = o
         /\ downloaded_files' = retrieve_csv_files(matching_files, o, disk).downloaded_files
         /\ disk' = retrieve_csv_files(matching_files, o, disk).disk
    /\ pc' = "downloaded"
    /\ UNCHANGED <<raw_data, parsed, matching_files, results, replVars>>

NextBatch == Deduplicate \/ ReturnParsed \/ Download

SpecBatch == InitBatch /\ [][NextBatch]_vars

(***************************************************************************)
(* Keyword inference.  The LLM either fails (the call raises) or returns a *)
(* text; json.loads either raises on it or yields a JSON value.            *)
(***************************************************************************)
Finance == <<"finance">>
Health == <<"health">>
Sales == <<"sales">>
Climate == <<"climate">>

ReplyTexts ==
    { "{\"categories\": [\"finance\", \"health\"], \"genres\": [\"sales\"]}",
      "{\"categories\": [\"finance\", \"health\"], \"genres\": [\"sales\", \"climate\"]}",
      "{\"categories\": [\"sports\"], \"genres\": [\"sales\"]}",
      "{\"categories\": [], \"genres\": [\"sales\"]}",
      "{\"categories\": [\"finance\"], \"genres\": []}",
      "{\"categories\": [], \"genres\": []}",
      "{\"explanation\": \"nothing applies\"}",
      "[\"finance\", \"sales\"]",
      "Sure! The categories are finance and health." }

\* json.loads(text): ok is FALSE when it raises.
JsonLoads(text) ==
    CASE text = "{\"categories\": [\"finance\", \"health\"], \"genres\": [\"sales\"]}" ->
            [ok |-> TRUE, value |-> JDict(JList(<<Finance, Health>>), JList(<<Sales>>))]
      [] text = "{\"categories\": [\"finance\", \"health\"], \"genres\": [\"sales\", \"climate\"]}" ->
            [ok |-> TRUE,
             value |-> JDict(JList(<<Finance, Health>>), JList(<<Sales, Climate>>))]
      [] text = "{\"categories\": [\"sports\"], \"genres\": [\"sales\"]}" ->
            [ok |-> TRUE, value |-> JDict(JList(<< <<"sports">> >>), JList(<<Sales>>))]
      [] text = "{\"categories\": [], \"genres\": [\"sales\"]}" ->
            [ok |-> TRUE, value |-> JDict(JList(<< >>), JList(<<Sales>>))]
      [] text = "{\"categories\": [\"finance\"], \"genres\": []}" ->
            [ok |-> TRUE, value |-> JDict(JList(<<Finance>>), JList(<< >>))]
      [] text = "{\"categories\": [], \"genres\": []}" ->
            [ok |-> TRUE, value |-> JDict(JList(<< >>), JList(<< >>))]
      [] text = "{\"explanation\": \"nothing applies\"}" ->
            [ok |-> TRUE, value |-> JDict(JNone, JNone)]
      [] text = "[\"finance\", \"sales\"]" ->
            [ok |-> TRUE, value |-> JOther("list")]
      [] OTHER -> [ok |-> FALSE, value |-> JOther("null")]

\* What the LLM round trip can do: "raises", or the text it returns.
LlmOutcomes == {"raises"} \cup ReplyTexts

\* A defect the except branch could have: an empty dict is returned.
FailureGivesEmptyDict == JDict(JNone, JNone)

\* return {"categories": [], "genres": []}
FailureKeywords == JDict(JList(<< >>), JList(<< >>))

\* infer_categories_and_genres / Retriever._infer_categories_and_genres
infer_categories_and_genres(outcome) ==
    IF outcome = "raises" THEN FailureKeywords
    ELSE IF ~JsonLoads(outcome).ok THEN FailureKeywords
    ELSE JsonLoads(outcome).value

(***************************************************************************)
(* The marketplace: a catalogue of triples.  get_data returns the records  *)
(* of the datasets with the requested theme, type and media type; the      *)
(* SPARQL query returns every triple of the subjects that have a theme in  *)
(* the first IN list and a type in the second.  Either request may raise.  *)
(***************************************************************************)
S3 == <<"s3">>

Catalogue ==
    << << S1, P_productName, <<"a.csv">> >>,
       << S1, P_creator, Acme >>,
       << S1, P_theme, Finance >>,
       << S1, P_type, Sales >>,
       << S1, P_mediaType, TextCsv >>,
       << S2, P_productName, <<"b.csv">> >>,
       << S2, P_creator, <<"Bob">> >>,
       << S2, P_theme, Finance >>,
       << S2, P_theme, Health >>,
       << S2, P_type, Sales >>,
       << S2, P_mediaType, TextCsv >>,
       << S3, P_productName, <<"a.csv">> >>,
       << S3, P_creator, Acme >>,
       << S3, P_theme, Health >>,
       << S3, P_type, Climate >>,
       << S3, P_mediaType, TextCsv >> >>

CatalogueSubjects == <<S1, S2, S3>>

Has(subject, predicate, obj) ==
    \E i \in 1..Len(Catalogue) : Catalogue[i] = <<subject, predicate, obj>>

RowsOfSubject(subject) ==
    LET OfSubject(row) == row[1] = subject
    IN  SelectSeq(Catalogue, OfSubject)

\* The Data object the marketplace client builds for a subject.
DataOf(subject) == _parse_data(<<HeaderRow>> \o RowsOfSubject(subject), Org).value[1]

RECURSIVE GetDataFrom(_, _, _, _)
GetDataFrom(k, c, g, content_type) ==
    IF k > Len(CatalogueSubjects) THEN << >>
    ELSE (IF /\ Has(CatalogueSubjects[k], P_theme, c)
             /\ Has(CatalogueSubjects[k], P_type, g)
             /\ Has(CatalogueSubjects[k], P_mediaType, content_type)
          THEN <<DataOf(CatalogueSubjects[k])>> ELSE << >>)
         \o GetDataFrom(k + 1, c, g, content_type)

\* client.get_data(categories=[c], genre=g, content_type="text/csv")
GetData(request) ==
    GetDataFrom(1, request.categories[1], request.genre, request.content_type)

\* ", ".join(f'"{x}"' for x in items)
RECURSIVE JoinQuoted(_)
JoinQuoted(items) ==
    IF items = << >> THEN << >>
    ELSE IF Len(items) = 1 THEN <<"\"">> \o items[1] \o <<"\"">>
    ELSE <<"\"">> \o items[1] \o <<"\"">> \o <<", ">> \o JoinQuoted(Tail(items))

\* "FILTER(?theme IN (" + ", ".join(...) + "))"
InFilter(variable, items) ==
    <<"FILTER(?", variable, " IN (">> \o JoinQuoted(items) \o <<"))">>

QueryHead ==
    <<"SELECT DISTINCT ?subject ?predicate ?object WHERE { ?subject ?predicate ?object . ?subject <http://www.w3.org/ns/dcat#theme> ?theme . ?subject <http://purl.org/dc/terms/type> ?type . ">>

\* The f-string sparql_query.
SparqlQuery(categories, genres) ==
    QueryHead \o InFilter("theme", categories) \o <<" ">>
              \o InFilter("type", genres) \o <<" }">>

\* The marketplace reading the literals of the IN list that starts at q[i].
RECURSIVE Literals(_, _)
Literals(q, i) ==
    IF i > Len(q) \/ q[i] = "))" THEN << >>
    ELSE IF q[i] = "\""
         THEN LET j == CHOOSE n \in (i + 1)..Len(q) :
                          /\ q[n] = "\""
                          /\ \A m \in (i + 1)..(n - 1) : q[m] # "\""
              IN  <<SubSeq(q, i + 1, j - 1)>> \o Literals(q, j + 1)
         ELSE Literals(q, i + 1)

HasInFilter(q, variable) ==
    \E i \in 1..(Len(q) - 2) :
        q[i] = "FILTER(?" /\ q[i + 1] = variable /\ q[i + 2] = " IN ("

InList(q, variable) ==
    LET i == CHOOSE n \in 1..(Len(q) - 2) :
                 q[n] = "FILTER(?" /\ q[n + 1] = variable /\ q[n + 2] = " IN ("
    IN  Literals(q, i + 3)

\* SPARQL: a subject is a solution when one of its themes and one of its types
\* pass the filters; x IN () is false; without a filter nothing is excluded.
SubjectMatches(q, subject) ==
    /\ HasInFilter(q, "theme") =>
         \E i \in 1..Len(InList(q, "theme")) :
             Has(subject, P_theme, InList(q, "theme")[i])
    /\ HasInFilter(q, "type") =>
         \E i \in 1..Len(InList(q, "type")) :
             Has(subject, P_type, InList(q, "type")[i])

\* The rows of the SPARQL_CSV answer: the header, then the matching triples.
SparqlAnswer(q) ==
    LET Matches(row) == SubjectMatches(q, row[1])
    IN  <<HeaderRow>> \o SelectSeq(Catalogue, Matches)

(***************************************************************************)
(* The two search strategies.  Each yields the requests it issued and the  *)
(* list it returns; every exception inside is logged and [] returned.      *)
(* fail_at = k > 0: the k-th marketplace request raises.                   *)
(***************************************************************************)
GetDataRequest(c, g) == [categories |-> <<c>>, genre |-> g, content_type |-> TextCsv]

\* A defect the nested loops could have: the genres form the outer loop.
GenreMajorRequests(categories, genres) ==
    [n \in 1..(Len(categories) * Len(genres)) |->
        GetDataRequest(categories[((n - 1) % Len(categories)) + 1],
                       genres[((n - 1) \div Len(categories)) + 1])]

\* The (category, genre) pairs in the order of the nested loops.
PairRequests(categories, genres) ==
    [n \in 1..(Len(categories) * Len(genres)) |->
        GetDataRequest(categories[((n - 1) \div Len(genres)) + 1],
                       genres[((n - 1) % Len(genres)) + 1])]

RECURSIVE Extend(_, _)
\* results.extend(r) for each request in turn
Extend(reqs, i) ==
    IF i > Len(reqs) THEN << >> ELSE GetData(reqs[i]) \o Extend(reqs, i + 1)

\* What a search did: the requests it issued, the responses it had gathered
\* (results of src/chatbot.py), whether it caught an exception, and the
\* list it returned.
SearchOutcome(reqs, gathered, raised, value) ==
    [requests |-> reqs, results |-> gathered, raised |-> raised, value |-> value]

\* search_nyx_for_files of src/chatbot.py.  Iterating None raises TypeError,
\* the fail_at-th get_data raises; both are caught and [] is returned.
search_nyx_for_files(categories, genres, fail_at) ==
    IF categories.v # "list" THEN SearchOutcome(<< >>, << >>, TRUE, << >>)
    ELSE IF categories.items # << >> /\ genres.v # "list"
         THEN SearchOutcome(<< >>, << >>, TRUE, << >>)
    ELSE LET reqs == PairRequests(categories.items, genres.items)
         IN  IF fail_at \in 1..Len(reqs)
             THEN SearchOutcome(SubSeq(reqs, 1, fail_at),
                                Extend(SubSeq(reqs, 1, fail_at - 1), 1), TRUE, << >>)
             ELSE SearchOutcome(reqs, Extend(reqs, 1), FALSE,
                                RemoveDuplicates(Extend(reqs, 1)))

\* Retriever._search_nyx_for_files
_search_nyx_for_files(categories, genres, fail_at) ==
    IF categories.v # "list" \/ genres.v # "list"
    THEN SearchOutcome(<< >>, << >>, TRUE, << >>)
    ELSE LET q == SparqlQuery(categories.items, genres.items)
             p == _parse_data(SparqlAnswer(q), Org)
         IN  IF fail_at = 1 THEN SearchOutcome(<<q>>, << >>, TRUE, << >>)
             ELSE SearchOutcome(<<q>>, << >>, p.exc # "none", FilterSearchReturn(p))

Search(strat, categories, genres, fail_at) ==
    IF strat = "cartesian" THEN search_nyx_for_files(categories, genres, fail_at)
    ELSE _search_nyx_for_files(categories, genres, fail_at)

(***************************************************************************)
(* The REPL (main of src/chatbot.py and of src/advanced-rag/chatbot.py).   *)
(***************************************************************************)
LowerChar(c) ==
    CASE c = "E" -> "e" [] c = "X" -> "x" [] c = "I" -> "i" [] c = "T" -> "t"
      [] OTHER -> c

\* A defect the exit test could have: the line is compared as typed.
KeepsCase(s) == s

\* str.lower()
Lower(s) == [i \in 1..Len(s) |-> LowerChar(s[i])]

ExitWord == <<"e", "x", "i", "t">>

\* Lines typed at the query prompt and at the question prompt.
QueryInputs ==
    { ExitWord, <<" ", "E", "x", "I", "T", " ">>,
      <<"sales in Europe">>, <<" ", "health data">> }

QuestionInputs ==
    { <<"E", "X", "I", "T">>, <<"e", "x", "i", "t", " ">>, <<"what is the mean size?">> }

\* What analyse_csv_files returns: the LLM's text or one of its two fixed messages.
Answers ==
    { "llm answer",
      "No valid data found in the downloaded files.",
      "An error occurred during analysis. Please try again." }

Running == pc \notin {"exited", "crashed"}

InitRepl ==
    /\ pc = "query_prompt"
    /\ strategy \in {"cartesian", "filter"}
    /\ raw_data = << >>
    /\ parsed = Pending
    /\ matching_files = << >>
    /\ results = << >>
    /\ data = << >>
    /\ outcomes = << >>
    /\ downloaded_files = << >>
    /\ disk = << >>
    /\ ReplIdle

\* if not matching_files: continue
AfterSearch(files) == IF files = << >> THEN "query_prompt" ELSE "download"

\* A defect the download test could have: the analysis runs whatever the
\* download returned.
AlwaysAnalyses(files) == "analyse"

\* if downloaded_files: ... else: continue
AfterDownload(files) == IF files = << >> THEN "query_prompt" ELSE "analyse"

\* input("Enter your query: ").strip(), the exit test.
EnterQuery ==
    /\ pc = "query_prompt"
    /\ downloaded_files = << >>
    /\ \E line \in QueryInputs :
         /\ last_input' = UserEvent(pc, "line", line)
         /\ IF Lower(Strip(line)) = ExitWord
            THEN /\ pc' = "exited"
                 /\ user_query' = Strip(line)
                 /\ UNCHANGED <<log, queries>>
            ELSE /\ queries < MaxQueries
                 /\ pc' = "infer"
                 /\ user_query' = Strip(line)
                 /\ log' = << >>
                 /\ queries' = queries + 1
    /\ UNCHANGED <<raw_data, parsed, matching_files, results, data, outcomes,
                   downloaded_files, disk, strategy, llm_reply, inferred_keywords,
                   requests, uncaught, answer, search_error>>

\* The inference call and the two .get() that follow it: a JSON value that
\* is not a dict has no .get, and the AttributeError is caught nowhere.
Infer ==
    /\ pc = "infer"
    /\ \E outcome \in LlmOutcomes :
         /\ llm_reply' = outcome
         /\ inferred_keywords' = infer_categories_and_genres(outcome)
    /\ log' = Append(log, "infer")
    /\ IF inferred_keywords'.t = "dict"
       THEN pc' = "search" /\ UNCHANGED uncaught
       ELSE pc' = "crashed" /\ uncaught' = "AttributeError"
    /\ UNCHANGED <<raw_data, parsed, matching_files, results, data, outcomes,
                   downloaded_files, disk, strategy, user_query, requests, answer,
                   queries, last_input, search_error>>

\* The search call and "if not matching_files: continue".
RunSearch ==
    /\ pc = "search"
    /\ \E fail_at \in 0..Len(Search(strategy, inferred_keywords.categories,
                                     inferred_keywords.genres, 0).requests) :
         LET r == Search(strategy, inferred_keywords.categories,
                         inferred_keywords.genres, fail_at)
         IN  /\ requests' = r.requests
             /\ results' = r.results
             /\ search_error' = r.raised
             /\ matching_files' = r.value
    /\ log' = Append(log, "search")
    /\ pc' = AfterSearch(matching_files')
    /\ UNCHANGED <<raw_data, parsed, data, outcomes, downloaded_files, disk,
                   strategy, user_query, llm_reply, inferred_keywords, uncaught,
                   answer, queries, last_input>>

\* retrieve_csv_files and "if downloaded_files: ... else: continue".
\* os.makedirs is outside every try block of the function.
DownloadFiles ==
    /\ pc = "download"
    /\ data' = matching_files
    /\ log' = Append(log, "download")
    /\ \/ /\ pc' = "crashed"
          /\ uncaught' = "OSError"
          /\ UNCHANGED <<outcomes, downloaded_files, disk>>
       \/ /\ \E o \in OutcomeVectors(matching_files) :
               /\ outcomes' = o
               /\ downloaded_files' =
                      retrieve_csv_files(matching_files, o, disk).downloaded_files
               /\ disk' = retrieve_csv_files(matching_files, o, disk).disk
          /\ pc' = AfterDownload(downloaded_files')
          /\ UNCHANGED uncaught
    /\ UNCHANGED <<raw_data, parsed, matching_files, results, strategy, user_query,
                   llm_reply, inferred_keywords, requests, answer, queries,
                   last_input, search_error>>

\* print(analyse_csv_files(downloaded_files, user_query))
AnalyseInitial ==
    /\ pc = "analyse"
    /\ answer' \in Answers
    /\ log' = Append(log, "analyse")
    /\ pc' = "question_prompt"
    /\ UNCHANGED <<raw_data, parsed, matching_files, results, data, outcomes,
                   downloaded_files, disk, strategy, user_query, llm_reply,
                   inferred_keywords, requests, uncaught, queries, last_input,
                   search_error>>

\* The inner loop: a question is analysed, exit clears the file list.
EnterQuestion ==
    /\ pc = "question_prompt"
    /\ \E line \in QuestionInputs :
         /\ last_input' = UserEvent(pc, "line", line)
         /\ IF Lower(Strip(line)) = ExitWord
            THEN /\ downloaded_files' = << >>
                 /\ pc' = "query_prompt"
                 /\ UNCHANGED <<answer, log>>
            ELSE /\ answer' \in Answers
                 /\ UNCHANGED <<downloaded_files, pc, log>>
    /\ UNCHANGED <<raw_data, parsed, matching_files, results, data, outcomes, disk,
                   strategy, user_query, llm_reply, inferred_keywords, requests,
                   uncaught, queries, search_error>>

\* Ctrl-C anywhere inside the try block: except KeyboardInterrupt: break.
Interrupt ==
    /\ Running
    /\ pc' = "exited"
    /\ last_input' = UserEvent(pc, "interrupt", << >>)
    /\ UNCHANGED <<raw_data, parsed, matching_files, results, data, outcomes,
                   downloaded_files, disk, strategy, user_query, llm_reply,
                   inferred_keywords, requests, log, uncaught, answer, queries,
                   search_error>>

\* End of input at a prompt: input() raises EOFError, which nothing catches.
EndOfInput ==
    /\ pc \in {"query_prompt", "question_prompt"}
    /\ pc' = "crashed"
    /\ uncaught' = "EOFError"
    /\ last_input' = UserEvent(pc, "eof", << >>)
    /\ UNCHANGED <<raw_data, parsed, matching_files, results, data, outcomes,
                   downloaded_files, disk, strategy, user_query, llm_reply,
                   inferred_keywords, requests, log, answer, queries, search_error>>

NextRepl ==
    \/ EnterQuery
    \/ Infer
    \/ RunSearch
    \/ DownloadFiles
    \/ AnalyseInitial
    \/ EnterQuestion
    \/ Interrupt
    \/ EndOfInput

SpecRepl == InitRepl /\ [][NextRepl]_vars

(***************************************************************************)
(* What the claims about the parser speak of, read off the response rows   *)
(* themselves (not off the parser).                                        *)
(***************************************************************************)
HasThreeFields(row) == Len(row) >= 3

\* The rows after the header that carry a subject, a predicate and an object.
TripleRows(rows) == SelectSeq(Tail(rows), HasThreeFields)

RECURSIVE FirstAppearances(_, _)
FirstAppearances(seq, i) ==
    IF i > Len(seq) THEN << >>
    ELSE (IF \E j \in 1..(i - 1) : seq[j] = seq[i] THEN << >> ELSE <<seq[i]>>)
         \o FirstAppearances(seq, i + 1)

\* The distinct subjects of the triple rows, in order of first appearance.
SubjectsInOrder(rows) ==
    LET t == TripleRows(rows)
    IN  FirstAppearances([i \in 1..Len(t) |-> Strip(t[i][1])], 1)

RECURSIVE ObjectsOf(_, _, _)
\* The objects of the (subject, predicate) rows among the triple rows t, in row order.
ObjectsOf(t, subject, predicate) ==
    IF t = << >> THEN << >>
    ELSE (IF Strip(Head(t)[1]) = subject /\ Strip(Head(t)[2]) = predicate
          THEN <<Strip(Head(t)[3])>> ELSE << >>)
         \o ObjectsOf(Tail(t), subject, predicate)

\* The last object of the (subject, predicate) rows, "" when there is none.
LastObject(t, subject, predicate) ==
    LET o == ObjectsOf(t, subject, predicate)
    IN  IF o = << >> THEN << >> ELSE o[Len(o)]

RecognizedPredicates ==
    {P_productName, P_title, P_description, P_creator, P_theme, P_type,
     P_byteSize, P_accessURL, P_mediaType}

NoRecognizedPredicate(t, subject) ==
    \A i \in 1..Len(t) :
        Strip(t[i][1]) = subject => Strip(t[i][2]) \notin RecognizedPredicates

(***************************************************************************)
(* C3.  The parser discards the first (header) row and every row of fewer  *)
(* than 3 fields without raising, and those rows contribute nothing: the   *)
(* outcome (records or exception) is the one of the same response with an  *)
(* empty first row and the short rows removed, and it is never the         *)
(* IndexError or StopIteration a short or missing row could cause.         *)
(***************************************************************************)
C3_ShortRowsDiscarded ==
    pc = "done" =>
        /\ parsed.exc \notin {"IndexError", "StopIteration"}
        /\ parsed = _parse_data(<< << >> >> \o TripleRows(raw_data), Org)
        /\ (TripleRows(raw_data) = << >> => parsed = [exc |-> "none", value |-> << >>])

\* A response with a blank row, a two-field row naming a subject no triple
\* row names, and triple rows that were parsed into one record.
C3_Witness ==
    /\ pc = "done"
    /\ \E i \in 2..Len(raw_data) : raw_data[i] = << >>
    /\ \E i \in 2..Len(raw_data) : raw_data[i] = << S2, P_title >>
    /\ parsed.exc = "none"
    /\ Len(parsed.value) = 1
    /\ parsed.value[1].creator = Acme

(***************************************************************************)
(* C4.  When the parser returns, it returns exactly one record per         *)
(* distinct subject of the triple rows, in order of first appearance: the  *)
(* k-th record carries the k-th subject's theme objects in row order as    *)
(* categories and that subject's last name, title and creator; a subject   *)
(* with only unrecognized predicates yields the all-default record.        *)
(***************************************************************************)
C4_OneRecordPerSubject ==
    (pc = "done" /\ parsed.exc = "none") =>
        LET t    == TripleRows(raw_data)
            subs == SubjectsInOrder(raw_data)
        IN  /\ Len(parsed.value) = Len(subs)
            /\ \A k \in 1..Len(subs) :
                 /\ parsed.value[k].categories = ObjectsOf(t, subs[k], P_theme)
                 /\ parsed.value[k].name = LastObject(t, subs[k], P_productName)
                 /\ parsed.value[k].title = LastObject(t, subs[k], P_title)
                 /\ parsed.value[k].creator = LastObject(t, subs[k], P_creator)
                 /\ NoRecognizedPredicate(t, subs[k]) =>
                      /\ parsed.value[k].name = << >>
                      /\ parsed.value[k].title = << >>
                      /\ parsed.value[k].description = << >>
                      /\ parsed.value[k].creator = << >>
                      /\ parsed.value[k].url = << >>
                      /\ parsed.value[k].content_type = << >>
                      /\ parsed.value[k].genre = << >>
                      /\ parsed.value[k].categories = << >>
                      /\ parsed.value[k].size = 0

\* Two subjects: the first with two theme rows, the second with only an
\* unrecognized predicate.
C4_Witness ==
    /\ pc = "done"
    /\ parsed.exc = "none"
    /\ Len(parsed.value) = 2
    /\ parsed.value[1].categories = << <<"finance">>, <<"health">> >>
    /\ parsed.value[2] = DefaultData(Org)
    /\ NoRecognizedPredicate(TripleRows(raw_data), S2)

LooksLikeUrl(s) ==
    /\ Len(s) >= 3
    /\ s[1] \in {"http:", "https:"}
    /\ s[2] = "/"
    /\ s[3] = "/"

RECURSIVE FinalPathSegment(_)
FinalPathSegment(s) ==
    IF s = << >> \/ s[Len(s)] = "/" THEN << >>
    ELSE Append(FinalPathSegment(SubSeq(s, 1, Len(s) - 1)), s[Len(s)])

NormalizedMediaType(s) == IF LooksLikeUrl(s) THEN FinalPathSegment(s) ELSE s

(***************************************************************************)
(* C6.  Media-type normalization: the content_type of a record is the      *)
(* final path segment of its media-type object when that object is         *)
(* URL-shaped, and the object verbatim otherwise.                          *)
(***************************************************************************)
C6_MediaTypeNormalized ==
    (pc = "done" /\ parsed.exc = "none") =>
        LET t    == TripleRows(raw_data)
            subs == SubjectsInOrder(raw_data)
        IN  \A k \in 1..Len(subs) :
              parsed.value[k].content_type =
                  NormalizedMediaType(LastObject(t, subs[k], P_mediaType))

Key(d) == <<d.name, d.creator>>

NoDuplicateKeys(recs) ==
    \A i, j \in 1..Len(recs) : i # j => Key(recs[i]) # Key(recs[j])

(***************************************************************************)
(* C2.  The records a search returns never hold two records with the same  *)
(* (name, creator) pair; on the response of the documented scenario (s1    *)
(* and s2, both of creator "Acme" and without product name) the search     *)
(* returns exactly the record built from s1.                               *)
(***************************************************************************)
C2_SearchResultHasUniqueKeys ==
    pc = "done" =>
        /\ NoDuplicateKeys(matching_files)
        /\ raw_data = ExampleResponse =>
             matching_files =
                 << [DefaultData(Org) EXCEPT !.title = SalesQ1, !.creator = Acme,
                                             !.size = 1024] >>

\* The positions of the records that are the first of their (name, creator).
FirstPositions(recs) ==
    { i \in 1..Len(recs) : \A j \in 1..(i - 1) : Key(recs[j]) # Key(recs[i]) }

\* The k-th smallest member of the set of positions I.
KthOf(I, k) == CHOOSE i \in I : Cardinality({ j \in I : j < i }) = k - 1

(***************************************************************************)
(* C1.  De-duplication returns the subsequence of its input that holds,    *)
(* for each distinct (name, creator) pair, exactly the first record with   *)
(* that pair, in input order; other fields play no part.                   *)
(***************************************************************************)
C1_DedupKeepsFirstOfEachKey ==
    (strategy = "cartesian" /\ pc \in {"searched", "downloaded"}) =>
        LET I == FirstPositions(results)
        IN  /\ Len(matching_files) = Cardinality(I)
            /\ \A k \in 1..Len(matching_files) :
                 matching_files[k] = results[KthOf(I, k)]

\* Three records, the second a later copy of the first key with another
\* title, the third of the same name and another creator: two survive.
C1_Witness ==
    /\ strategy = "cartesian"
    /\ pc = "searched"
    /\ Len(results) = 3
    /\ Key(results[1]) = Key(results[2])
    /\ results[1].title # results[2].title
    /\ results[3].name = results[1].name
    /\ matching_files = << results[1], results[3] >>

SucceededPositions == { i \in 1..Len(data) : outcomes[i] = "ok" }

(***************************************************************************)
(* C9.  A failure while subscribing to or writing one record skips only    *)
(* that record: the returned list holds exactly the paths (download        *)
(* directory joined with the name) of the records whose subscribe and      *)
(* write both succeeded, in the order of the input records.                *)
(***************************************************************************)
C9_DownloadSkipsOnlyFailures ==
    pc = "downloaded" =>
        /\ Len(downloaded_files) = Cardinality(SucceededPositions)
        /\ \A k \in 1..Len(downloaded_files) :
             downloaded_files[k] =
                 DownloadPath \o <<"/">> \o data[KthOf(SucceededPositions, k)].name

\* The first record fails, the later two are still downloaded.
C9_Witness ==
    /\ pc = "downloaded"
    /\ Len(data) = 3
    /\ outcomes[1] # "ok" /\ outcomes[2] = "ok" /\ outcomes[3] = "ok"
    /\ Len(downloaded_files) = 2

(***************************************************************************)
(* C10.  One file per dataset: after a download batch over de-duplicated   *)
(* records in which every record succeeds, the number of distinct files    *)
(* written, and of distinct returned paths, is the number of records, and  *)
(* each file holds the content of the record it is named after.            *)
(***************************************************************************)
C10_OneFilePerDataset ==
    (/\ pc = "downloaded"
     /\ NoDuplicateKeys(data)
     /\ \A i \in 1..Len(data) : outcomes[i] = "ok") =>
        /\ Cardinality({ disk[k].path : k \in 1..Len(disk) }) = Len(data)
        /\ Cardinality({ downloaded_files[k] : k \in 1..Len(downloaded_files) }) = Len(data)
        /\ \A i \in 1..Len(data) :
             \E k \in 1..Len(disk) :
                 /\ disk[k].path = PathJoin(DownloadPath, data[i].name)
                 /\ disk[k].content = Content(data[i])

HasEmptyInList(q) ==
    \E i \in 1..(Len(q) - 1) : q[i] = " IN (" /\ q[i + 1] = "))"

(***************************************************************************)
(* C5.  The filter-query search never sends an inclusion filter with an    *)
(* empty list: no structured query holds "IN (" directly followed by the   *)
(* closing "))", so an empty category (genre) list leaves theme (type)     *)
(* unconstrained.                                                          *)
(***************************************************************************)
C5_NoEmptyInList ==
    strategy = "filter" =>
        \A k \in 1..Len(requests) : ~HasEmptyInList(requests[k])

InferenceFailed ==
    /\ log # << >>
    /\ llm_reply \in {"raises", "Sure! The categories are finance and health."}

C8_NoStepFailureEndsTheRepl == uncaught \notin {"AttributeError", "OSError"}

\* The word exit in any letter case, blanks around it aside.
IsExitInput(line) ==
    LET w == Strip(line)
    IN  /\ Len(w) = 4
        /\ w[1] \in {"e", "E"} /\ w[2] \in {"x", "X"}
        /\ w[3] \in {"i", "I"} /\ w[4] \in {"t", "T"}

AtPrompt == pc \in {"query_prompt", "question_prompt"}

(***************************************************************************)
(* C11.  REPL termination levels.  A line that is the word exit in any     *)
(* letter case ends only the loop level it is typed at: at the query       *)
(* prompt the program ends; at the question prompt the downloaded file     *)
(* list is cleared and the program is at the query prompt, no analysis     *)
(* having run and no query having been accepted in the step.  Any other    *)
(* line ends nothing.  Ctrl-C at either prompt ends the whole program      *)
(* without an uncaught exception.  The query prompt is only ever shown     *)
(* with an empty file list.                                                *)
(***************************************************************************)
C11_ExitEndsOneLevel ==
    [][ LET e == last_input'
        IN  /\ (AtPrompt /\ e.at = pc /\ e.kind = "line" /\ IsExitInput(e.line)) =>
                 IF pc = "query_prompt"
                 THEN pc' = "exited" /\ uncaught' = "none"
                 ELSE /\ pc' = "query_prompt"
                      /\ downloaded_files' = << >>
                      /\ answer' = answer
                      /\ log' = log
                      /\ queries' = queries
                      /\ uncaught' = "none"
            /\ (AtPrompt /\ e.at = pc /\ e.kind = "line" /\ ~IsExitInput(e.line)) =>
                 pc' \notin {"exited", "crashed", "query_prompt"}
            /\ (AtPrompt /\ e.at = pc /\ e.kind = "interrupt") =>
                 pc' = "exited" /\ uncaught' = "none"
            /\ pc' = "query_prompt" => downloaded_files' = << >>
      ]_vars

\* EXIT typed at the question prompt after an analysis: the program is back
\* at the query prompt with no files, ready for a second query.
C11_Witness ==
    /\ last_input = UserEvent("question_prompt", "line", <<"E", "X", "I", "T">>)
    /\ pc = "query_prompt"
    /\ log = <<"infer", "search", "download", "analyse">>
    /\ downloaded_files = << >>
    /\ queries < MaxQueries

QuerySteps == <<"infer", "search", "download", "analyse">>

IsPrefix(a, b) == Len(a) <= Len(b) /\ a = SubSeq(b, 1, Len(a))

\* The query whose steps are in log needs no further step: nothing was
\* asked yet, or the search or the download came back empty, or the
\* analysis ran and the files were given up.
QueryIsOver ==
    \/ log = << >>
    \/ log = SubSeq(QuerySteps, 1, 2) /\ matching_files = << >>
    \/ log = SubSeq(QuerySteps, 1, 3) /\ downloaded_files = << >>
    \/ log = QuerySteps /\ downloaded_files = << >>

(***************************************************************************)
(* C12.  One query at a time.  The steps run for a query are a prefix of   *)
(* inference, search, download, analysis, each step following the one      *)
(* before it; the query prompt is shown, and a query accepted, only when   *)
(* the query before it is over; the download loop runs only on a search    *)
(* result of at least one record; and an analysis, the first of a query or *)
(* one for a follow-up question, is only ever run on a non-empty list of   *)
(* downloaded files.                                                       *)
(***************************************************************************)
C12_OneQueryAtATime ==
    /\ [](/\ IsPrefix(log, QuerySteps)
          /\ pc = "query_prompt" => QueryIsOver
          /\ pc = "download" => matching_files # << >>
          /\ pc \in {"analyse", "question_prompt"} => downloaded_files # << >>)
    /\ [][ /\ log' # log =>
                \/ log' = << >> /\ queries' = queries + 1 /\ pc = "query_prompt"
                \/ /\ Len(log') = Len(log) + 1
                   /\ queries' = queries
                   /\ pc = QuerySteps[Len(log')]
           /\ queries' # queries => pc = "query_prompt" /\ QueryIsOver /\ pc' = "infer"
           /\ (Len(log') > Len(log) /\ log'[Len(log')] = "download") =>
                  data' = matching_files /\ matching_files # << >>
           /\ (pc = "question_prompt" /\ pc' = "question_prompt") =>
                  downloaded_files' = downloaded_files /\ downloaded_files # << >>
         ]_vars

\* The second query of a run has gone through its four steps, on files of
\* its own, and the program waits for a question about them.
C12_Witness ==
    /\ queries = 2
    /\ log = QuerySteps
    /\ pc = "question_prompt"
    /\ downloaded_files # << >>
    /\ matching_files # << >>

RECURSIVE PairsOf(_, _)
\* The (category, genre) pairs, category by category, genres in list order.
PairsOf(C, G) ==
    IF C = << >> THEN << >>
    ELSE [j \in 1..Len(G) |-> <<Head(C), G[j]>>] \o PairsOf(Tail(C), G)

RECURSIVE Concatenation(_)
Concatenation(seqs) ==
    IF seqs = << >> THEN << >> ELSE Head(seqs) \o Concatenation(Tail(seqs))

\* The cartesian search has run on the keywords inferred for the current
\* query, and these are two lists.
CartesianSearchRan ==
    /\ strategy = "cartesian"
    /\ Len(log) >= 2
    /\ inferred_keywords.categories.v = "list"
    /\ inferred_keywords.genres.v = "list"

(***************************************************************************)
(* C13.  Cartesian combination.  A search over the category list C and the *)
(* genre list G in which no request raises issues exactly Len(C) * Len(G)  *)
(* get-data requests, the n-th for the n-th (category, genre) pair in      *)
(* category-major order, filtered by that one category, that one genre and *)
(* content type text/csv; the responses are concatenated in that order and *)
(* the result is the first record of each (name, creator) of that          *)
(* concatenation.  When C or G is empty no request is issued, nothing is   *)
(* raised and the result is empty.  When a request raises, the requests    *)
(* issued are the pairs up to that one and the result is empty.            *)
(***************************************************************************)
C13_OneRequestPerPair ==
    CartesianSearchRan =>
        LET C     == inferred_keywords.categories.items
            G     == inferred_keywords.genres.items
            pairs == PairsOf(C, G)
            I     == FirstPositions(results)
        IN  /\ ~search_error =>
                 /\ Len(requests) = Len(C) * Len(G)
                 /\ \A n \in 1..Len(requests) :
                      requests[n] = [categories |-> << pairs[n][1] >>,
                                     genre |-> pairs[n][2],
                                     content_type |-> <<"text", "/", "csv">>]
                 /\ results =
                      Concatenation([n \in 1..Len(requests) |-> GetData(requests[n])])
                 /\ Len(matching_files) = Cardinality(I)
                 /\ \A k \in 1..Len(matching_files) :
                      matching_files[k] = results[KthOf(I, k)]
            /\ (C = << >> \/ G = << >>) =>
                 requests = << >> /\ matching_files = << >> /\ ~search_error
            /\ search_error =>
                 /\ requests # << >>
                 /\ Len(requests) <= Len(pairs)
                 /\ \A n \in 1..Len(requests) :
                      /\ requests[n].categories = << pairs[n][1] >>
                      /\ requests[n].genre = pairs[n][2]
                 /\ matching_files = << >>

\* Two categories and two genres: four requests, (finance, sales) first and
\* (finance, climate) second, four records gathered, two left after
\* de-duplication.
C13_Witness ==
    /\ CartesianSearchRan
    /\ ~search_error
    /\ Len(inferred_keywords.categories.items) = 2
    /\ Len(inferred_keywords.genres.items) = 2
    /\ Len(requests) = 4
    /\ requests[2].categories = <<Finance>> /\ requests[2].genre = Climate
    /\ Len(results) = 4
    /\ Len(matching_files) = 2

\* What int() accepts, read off the pieces: blanks, an optional sign, digits.
LooksLikeInteger(s) ==
    LET t == Strip(s)
        b == IF t # << >> /\ t[1] \in {"+", "-"} THEN SubSeq(t, 2, Len(t)) ELSE t
    IN  /\ b # << >>
        /\ \A i \in 1..Len(b) :
             b[i] \in {"0", "1", "2", "3", "4", "5", "6", "7", "8", "9"}

\* The response holds a byte-size row whose object is not an integer.
HasBadByteSize(rows) ==
    \E i \in 1..Len(TripleRows(rows)) :
        /\ Strip(TripleRows(rows)[i][2]) = P_byteSize
        /\ ~LooksLikeInteger(TripleRows(rows)[i][3])

(***************************************************************************)
(* C14.  The filter-query search is all-or-nothing.  On every response it  *)
(* returns either one record for each subject of the whole response or the *)
(* empty list.  A byte-size row whose object is not an integer makes it    *)
(* return the empty list, whatever well-formed subjects the response       *)
(* holds: the ValueError is caught and logged by the search and ends       *)
(* nothing.  Without such a row nothing is raised and the list is          *)
(* complete.                                                               *)
(***************************************************************************)
C14_FilterSearchAllOrNothing ==
    pc = "done" =>
        /\ \/ matching_files = << >>
           \/ /\ Len(matching_files) = Len(SubjectsInOrder(raw_data))
              /\ matching_files = parsed.value
        /\ HasBadByteSize(raw_data) =>
             /\ matching_files = << >>
             /\ parsed.exc = "ValueError"
             /\ search_error
             /\ uncaught = "none"
        /\ ~HasBadByteSize(raw_data) =>
             /\ ~search_error
             /\ Len(matching_files) = Len(SubjectsInOrder(raw_data))

\* A well-formed subject s1 with a creator and a size, then a byte-size row
\* of s2 that is not a number: nothing is returned, s1 included.
C14_Witness ==
    /\ pc = "done"
    /\ Len(raw_data) = 4
    /\ raw_data[2] = << S1, P_creator, Acme >>
    /\ raw_data[3] = << S1, P_byteSize, Str1024 >>
    /\ raw_data[4] = << S2, P_byteSize, <<"n", "/", "a">> >>
    /\ parsed.exc = "ValueError"
    /\ search_error
    /\ matching_files = << >>

=============================================================================
